---- MODULE Spec2Model ----
(***************************************************************************)
(* Cart optimizer of smart-grocery-cart: greedy_optimize and ilp_optimize  *)
(* (optimizer.py), the two entry points that dispatch on the method        *)
(* selector (lc_tools.OptimizerTool._run, agent_core.optimize_cart), the   *)
(* callers that turn the answer into a cart (find_optimal_cart,            *)
(* simple_orchestrate), and two calls of the optimizer interleaved.        *)
(*                                                                         *)
(* Python values are encoded as follows.                                   *)
(*   None                      the empty tuple <<>>                        *)
(*   a number n                the one-element tuple <<n>>                 *)
(*   a pair (store, price)     <<store, price>>, price being None or <<n>> *)
(*   an observation dict       a function whose DOMAIN is the set of keys  *)
(*                             it has among "price" and "available"        *)
(*   a dict in insertion order a sequence of its (key, value) entries with *)
(*                             distinct keys                               *)
(*   an uncaught exception     an outcome [kind |-> "raised", exc |-> ..]  *)
(***************************************************************************)
EXTENDS Integers, Sequences, FiniteSets, TLC

VARIABLES price_table, delivery_fees, greedy_out, ilp_out, dispatch,
          ilp_point, calls

vars == <<price_table, delivery_fees, greedy_out, ilp_out, dispatch,
          ilp_point, calls>>

(***************************************************************************)
(* Bounds of the model.                                                    *)
(***************************************************************************)
MaxItems == 2

ItemNames == <<"milk", "bread", "eggs">>

StoreNames == {"A", "B"}

(***************************************************************************)
(* Python values.                                                          *)
(***************************************************************************)
None == <<>>

Num(n) == <<n>>

IsNum(v) == Len(v) = 1

Val(v) == v[1]

Pair(s, p) == <<s, p>>

Returned(r) == [kind |-> "returned", result |-> r]

Raised(e) == [kind |-> "raised", exc |-> e]

NotCalled == [kind |-> "not_called"]

HasKey(d, k) == k \in DOMAIN d

(* dict lookups on an insertion-ordered dict (a sequence of entries) *)
Keys(d) == {d[k].key : k \in 1..Len(d)}

Get(d, key) == (CHOOSE k \in 1..Len(d) : d[k].key = key)

Lookup(d, key) == d[Get(d, key)].val

(***************************************************************************)
(* optimizer.greedy_optimize                                               *)
(***************************************************************************)

(* `info['price'] < best[1]`: Python 3 orders numbers only; a None on      *)
(* either side raises TypeError.                                           *)
Comparable(p, q) == IsNum(p) /\ IsNum(q)

(* the loop of lines 13-17 with `<=` for `<` on line 16: among equal       *)
(* prices the store met last wins                                          *)
RECURSIVE greedy_scan_last_wins(_, _, _)
greedy_scan_last_wins(stores, k, best) ==
    IF k > Len(stores) THEN Returned(best)
    ELSE LET s    == stores[k].key
             info == stores[k].val
         IN  IF ~info.available THEN greedy_scan_last_wins(stores, k + 1, best)
             ELSE IF best = None \/ info.price[1] <= best[2][1]
                  THEN greedy_scan_last_wins(stores, k + 1,
                                             Pair(s, info.price))
                  ELSE greedy_scan_last_wins(stores, k + 1, best)

(* The loop of lines 13-17 over one item's stores, from position k with    *)
(* the running `best`; the outcome is best, or the exception that left it. *)
RECURSIVE greedy_scan(_, _, _)
greedy_scan(stores, k, best) ==
    IF k > Len(stores) THEN Returned(best)
    ELSE LET s    == stores[k].key
             info == stores[k].val
         IN  IF ~HasKey(info, "available") THEN Raised("KeyError")
             ELSE IF ~info.available THEN greedy_scan(stores, k + 1, best)
             ELSE IF best = None
                  THEN IF ~HasKey(info, "price") THEN Raised("KeyError")
                       ELSE greedy_scan(stores, k + 1, Pair(s, info.price))
             ELSE IF ~HasKey(info, "price") THEN Raised("KeyError")
             ELSE IF ~Comparable(info.price, best[2]) THEN Raised("TypeError")
             ELSE IF Val(info.price) < Val(best[2])
                  THEN greedy_scan(stores, k + 1, Pair(s, info.price))
                  ELSE greedy_scan(stores, k + 1, best)

(* the loop of line 11 with every new entry put in front of the others *)
RECURSIVE greedy_items_prepending(_, _, _)
greedy_items_prepending(pt, k, result) ==
    IF k > Len(pt) THEN Returned(result)
    ELSE LET row == greedy_scan(pt[k].val, 1, None)
         IN  IF row.kind = "raised" THEN row
             ELSE greedy_items_prepending(pt, k + 1,
                     <<[key |-> pt[k].key, val |-> row.result]>> \o result)

(* The loop of line 11 over the items, from position k, `result` being the *)
(* dict built so far.                                                      *)
RECURSIVE greedy_items(_, _, _)
greedy_items(pt, k, result) ==
    IF k > Len(pt) THEN Returned(result)
    ELSE LET row == greedy_scan(pt[k].val, 1, None)
         IN  IF row.kind = "raised" THEN row
             ELSE greedy_items(pt, k + 1,
                     Append(result, [key |-> pt[k].key, val |-> row.result]))

(* a greedy choice by price plus delivery fee of the store, on tables whose *)
(* observations are complete                                               *)
greedy_optimize_fee_aware(pt, fees) ==
    Returned(
       [k \in 1..Len(pt) |->
          LET row     == pt[k].val
              ok      == {j \in 1..Len(row) : row[j].val.available}
              fee(j)  == IF fees = None THEN 0
                         ELSE IF row[j].key \in DOMAIN fees[1]
                         THEN fees[1][row[j].key] ELSE 0
              cost(j) == row[j].val.price[1] + fee(j)
          IN  [key |-> pt[k].key,
               val |-> IF ok = {} THEN None
                       ELSE LET j == CHOOSE j \in ok : \A i \in ok :
                                        \/ cost(j) < cost(i)
                                        \/ cost(j) = cost(i) /\ j <= i
                            IN  Pair(row[j].key, row[j].val.price)]])

(* lines 4-19; delivery_fees is not read *)
greedy_optimize(pt, fees) == greedy_items(pt, 1, <<>>)

(* the call with the third parameter given: max_stores appears in the      *)
(* signature (line 4) and is not read either                               *)
greedy_optimize_max_stores(pt, fees, max_stores) == greedy_optimize(pt, fees)

(***************************************************************************)
(* agent_core.get_min_price_for_item, on one item's row.  The returned     *)
(* tuple (best_store, best_price) is a record; best_store is None or the   *)
(* one-element tuple of the store's name.  info.get() never raises: a      *)
(* missing field reads as None.  float() leaves the value of a number as   *)
(* it is.                                                                  *)
(***************************************************************************)
RECURSIVE min_price_scan(_, _, _, _)
min_price_scan(price_row, k, best_store, best_price) ==
    IF k > Len(price_row)
    THEN [best_store |-> best_store, best_price |-> best_price]
    ELSE LET store == price_row[k].key
             info  == price_row[k].val
         IN  IF /\ HasKey(info, "available") /\ info.available
                /\ HasKey(info, "price") /\ info.price # None
             THEN IF best_price = None \/ Val(info.price) < Val(best_price)
                  THEN min_price_scan(price_row, k + 1, <<store>>, info.price)
                  ELSE min_price_scan(price_row, k + 1, best_store, best_price)
             ELSE min_price_scan(price_row, k + 1, best_store, best_price)

get_min_price_for_item(price_row) == min_price_scan(price_row, 1, None, None)

(***************************************************************************)
(* optimizer.ilp_optimize                                                  *)
(***************************************************************************)

(* cost of an unusable pairing in the objective *)
Sentinel == 1000000

(* lines 24-27: every store that appears under any item *)
AllStores(pt) == UNION {Keys(pt[k].val) : k \in 1..Len(pt)}

(* a store the fee table does not list priced like an unusable pairing *)
Fee_missing_is_prohibitive(fees, s) ==
    IF fees = None THEN 0
    ELSE IF s \in DOMAIN Val(fees) THEN Val(fees)[s] ELSE Sentinel

(* lines 28-29 and the .get(s, 0) of line 45 *)
Fee(fees, s) ==
    IF fees = None THEN 0
    ELSE IF s \in DOMAIN Val(fees) THEN Val(fees)[s] ELSE 0

(* Line 43, evaluated for item k and store s: the coefficient of x[(i,s)], *)
(* or the exception the expression raises.  price_table[i][s] raises       *)
(* KeyError for a store the item does not list, so does a missing field;   *)
(* None * LpVariable raises TypeError.                                     *)
cell_cost(pt, k, s) ==
    IF s \notin Keys(pt[k].val) THEN Raised("KeyError")
    ELSE LET info == Lookup(pt[k].val, s)
         IN  IF ~HasKey(info, "available") THEN Raised("KeyError")
             ELSE IF ~info.available THEN Returned(Sentinel)
             ELSE IF ~HasKey(info, "price") THEN Raised("KeyError")
             ELSE IF ~IsNum(info.price) THEN Raised("TypeError")
             ELSE Returned(Val(info.price))

(* Lines 42-45 build the objective item by item; within an item the stores *)
(* come in the order of list(set), which the language does not fix.  The   *)
(* exceptions that can leave the construction: those of the cells of the   *)
(* first item that has a faulty cell.                                      *)
FaultyItems(pt) ==
    {k \in 1..Len(pt) :
        \E s \in AllStores(pt) : cell_cost(pt, k, s).kind = "raised"}

objective_errors(pt) ==
    IF FaultyItems(pt) = {} THEN {}
    ELSE LET k == CHOOSE i \in FaultyItems(pt) :
                      \A j \in FaultyItems(pt) : i <= j
         IN  {cell_cost(pt, k, s).exc :
                 s \in {t \in AllStores(pt) :
                           cell_cost(pt, k, t).kind = "raised"}}

RECURSIVE SumOver(_, _)
SumOver(f, S) ==
    IF S = {} THEN 0
    ELSE LET e == CHOOSE e \in S : TRUE
         IN  f[e] + SumOver(f, S \ {e})

(* A point of the 0/1 program: x[k] is the store s with x[(i,s)] = 1 for   *)
(* the k-th item (constraint of line 49: exactly one), y[s] is 1 or 0.     *)
Points(pt) ==
    [x : [1..Len(pt) -> AllStores(pt)], y : [AllStores(pt) -> {0, 1}]]

(* the constraints of lines 52-54 left out *)
Linked_never(pt, sol) == TRUE

(* lines 52-54: x[(i,s)] <= y[s] *)
Linked(pt, sol) == \A k \in 1..Len(pt) : sol.y[sol.x[k]] = 1

Feasible(pt) == {sol \in Points(pt) : Linked(pt, sol)}

(* the objective without the delivery term of line 45 *)
Objective_without_fees(pt, fees, sol) ==
    SumOver([k \in 1..Len(pt) |-> cell_cost(pt, k, sol.x[k]).result],
            1..Len(pt))

(* lines 42-45 *)
Objective(pt, fees, sol) ==
    SumOver([k \in 1..Len(pt) |-> cell_cost(pt, k, sol.x[k]).result],
            1..Len(pt))
    + SumOver([s \in AllStores(pt) |-> Fee(fees, s) * sol.y[s]],
              AllStores(pt))

(* prob.solve(): the solver ends on a point of minimal objective; which    *)
(* one, when several are minimal, is the solver's choice.                  *)
MinOf(S) == CHOOSE v \in S : \A w \in S : v <= w

Optimal(pt, fees) ==
    LET best == MinOf({Objective(pt, fees, sol) : sol \in Feasible(pt)})
    IN  {sol \in Feasible(pt) : Objective(pt, fees, sol) = best}

(* Lines 57-61 for a solved point, from item k on: the price is read from  *)
(* the chosen observation, whatever its availability.                      *)
RECURSIVE extract(_, _, _, _)
extract(pt, sol, k, result) ==
    IF k > Len(pt) THEN Returned(result)
    ELSE LET info == Lookup(pt[k].val, sol.x[k])
         IN  IF ~HasKey(info, "price") THEN Raised("KeyError")
             ELSE extract(pt, sol, k + 1,
                     Append(result, [key |-> pt[k].key,
                                     val |-> Pair(sol.x[k], info.price)]))

(* What prob.solve() leaves behind: the status of the problem and, when    *)
(* the solver ended on a point, the values of the variables.               *)
NotSolved == [status |-> "Not Solved"]

Infeasible == [status |-> "Infeasible"]

Solved(sol) == [status |-> "Optimal", x |-> sol.x, y |-> sol.y]

(* ilp_optimize with a solver that refuses a problem without variables *)
ilp_runs_refusing_no_variable(pt, fees) ==
    IF AllStores(pt) = {}
    THEN {[point |-> NotSolved, out |-> Raised("PulpSolverError")]}
    ELSE {[point |-> Solved(sol), out |-> extract(pt, sol, 1, <<>>)] :
             sol \in Optimal(pt, fees)}

(* Line 56, prob.solve(): the states it can leave the problem in.  Without *)
(* any store there is no variable at all; with an item to place, the       *)
(* constraint of line 49 is then 0 == 1.                                   *)
solve(pt, fees) ==
    IF AllStores(pt) = {}
    THEN {IF Len(pt) = 0 THEN Solved([x |-> <<>>, y |-> <<>>])
          ELSE Infeasible}
    ELSE {Solved(sol) : sol \in Optimal(pt, fees)}

(* The runs ilp_optimize can have on (pt, fees): the state of the problem  *)
(* after line 56 and the outcome of the call.  Line 56 ignores the status  *)
(* solve() returns; when no x has value 1.0 on lines 58-61 the result is   *)
(* empty.                                                                  *)
ilp_runs(pt, fees) ==
    IF objective_errors(pt) # {}
    THEN {[point |-> NotSolved, out |-> Raised(e)] :
             e \in objective_errors(pt)}
    ELSE {[point |-> point,
           out |-> IF point.status = "Optimal"
                   THEN extract(pt, point, 1, <<>>)
                   ELSE Returned(<<>>)] : point \in solve(pt, fees)}

(* The outcomes ilp_optimize can have on (pt, fees). *)
ilp_optimize(pt, fees) == {run.out : run \in ilp_runs(pt, fees)}

(***************************************************************************)
(* The caller's total of an Assignment (mocked_data/streamlit_app.py,      *)
(* lines 51-63): the prices of the assigned items plus the fee of every    *)
(* store used, each once.  float(None) raises TypeError.                   *)
(***************************************************************************)
Assigned(a) == {k \in 1..Len(a) : a[k].val # None}

used_stores(a) == {a[k].val[1] : k \in Assigned(a)}

total(a, fees) ==
    IF \E k \in Assigned(a) : ~IsNum(a[k].val[2]) THEN Raised("TypeError")
    ELSE Returned(
            SumOver([k \in Assigned(a) |-> Val(a[k].val[2])], Assigned(a))
            + SumOver([s \in used_stores(a) |-> Fee(fees, s)], used_stores(a)))

(***************************************************************************)
(* The method selector.  A Python str is a sequence of characters, so that *)
(* lower() and startswith() are computed and not assumed.                  *)
(***************************************************************************)
Upper == <<"G", "I", "L", "P">>

LowerOf == <<"g", "i", "l", "p">>

lower_char(c) ==
    IF \E k \in 1..Len(Upper) : Upper[k] = c
    THEN LowerOf[CHOOSE k \in 1..Len(Upper) : Upper[k] = c]
    ELSE c

lower(str) == [k \in 1..Len(str) |-> lower_char(str[k])]

startswith(str, prefix) ==
    /\ Len(str) >= Len(prefix)
    /\ SubSeq(str, 1, Len(prefix)) = prefix

STR_greedy == <<"g", "r", "e", "e", "d", "y">>

STR_ilp == <<"i", "l", "p">>

(* lc_tools.OptimizerTool._run, line 147: which strategy the selector runs *)
tool_strategy(method) ==
    IF startswith(lower(method), STR_ilp) THEN "ilp_optimize"
    ELSE "greedy_optimize"

(* agent_core.optimize_cart, lines 30-33 *)
cart_strategy(method) ==
    IF method = STR_greedy THEN "greedy_optimize" ELSE "ilp_optimize"

(* `delivery_fees or {}` (agent_core.py:31,33) and obj.get("delivery_fees", *)
(* {}) (lc_tools.py:146): an absent fee table becomes the empty dict.      *)
or_empty(fees) == IF fees = None THEN Num(<<>>) ELSE fees

(***************************************************************************)
(* Inputs.                                                                 *)
(***************************************************************************)
Obs(p, a) == [price |-> p, available |-> a]

(* rows: one dict store -> observation per order of the listed stores *)
RowsOver(orders, cells) ==
    UNION {{[k \in 1..Len(ss) |-> [key |-> ss[k], val |-> c[k]]] :
               c \in [1..Len(ss) -> cells]} : ss \in orders}

(* The prices of the specification's scenarios A, B and D. *)
Prices == {30, 48, 50, 60}

(* Well-formed tables: every item lists both stores, every observation is  *)
(* usable, or unavailable without a price as the scrapers report it.       *)
CellsWellFormed == {Obs(Num(p), TRUE) : p \in Prices} \cup {Obs(None, FALSE)}

RowsWellFormed == RowsOver({<<"A", "B">>}, CellsWellFormed)

(* Any table the callers can hand over: stale prices, a price nobody could *)
(* determine, records without a field, prices beyond the sentinel, items   *)
(* listing some stores or none, in either order.                           *)
CellsAny ==
    {Obs(Num(48), TRUE), Obs(Num(50), TRUE), Obs(Num(2 * Sentinel), TRUE),
     Obs(Num(30), FALSE), Obs(Num(3 * Sentinel), FALSE), Obs(None, FALSE),
     Obs(None, TRUE), [available |-> TRUE], [price |-> Num(50)]}

RowsAny ==
    RowsOver({<<>>, <<"A">>, <<"B">>, <<"A", "B">>, <<"B", "A">>}, CellsAny)

NoDispatch == [entry |-> "none"]

InitWith(rows, fees) ==
    /\ \E n \in 0..MaxItems : \E r \in [1..n -> rows] :
          price_table = [k \in 1..n |-> [key |-> ItemNames[k], val |-> r[k]]]
    /\ delivery_fees \in fees
    /\ greedy_out = NotCalled
    /\ ilp_out = NotCalled
    /\ dispatch = NoDispatch
    /\ ilp_point = NotSolved
    /\ calls = <<>>

(* fee tables: absent, one store charged, both stores charged *)
FeesSome == {None, Num([A |-> 20]), Num([A |-> 20, B |-> 20])}

Init == InitWith(RowsWellFormed, FeesSome)

InitAny == InitWith(RowsAny, {None, Num([A |-> 20])})

(***************************************************************************)
(* Actions: a caller invokes a strategy on the tables of the state.        *)
(***************************************************************************)
CallGreedy ==
    /\ greedy_out = NotCalled
    /\ greedy_out' = greedy_optimize(price_table, delivery_fees)
    /\ UNCHANGED <<price_table, delivery_fees, ilp_out, dispatch,
                   ilp_point, calls>>

(* ilp_optimize with the default of lines 28-29 written into the caller's  *)
(* fee table instead of a local name *)
CallIlp_defaulting_in_place ==
    /\ ilp_out = NotCalled
    /\ \E run \in ilp_runs(price_table, delivery_fees) :
          ilp_out' = run.out /\ ilp_point' = run.point
    /\ delivery_fees' =
          IF delivery_fees = None
          THEN Num([s \in AllStores(price_table) |-> 0])
          ELSE delivery_fees
    /\ UNCHANGED <<price_table, greedy_out, dispatch, calls>>

CallIlp ==
    /\ ilp_out = NotCalled
    /\ \E run \in ilp_runs(price_table, delivery_fees) :
          ilp_out' = run.out /\ ilp_point' = run.point
    /\ UNCHANGED <<price_table, delivery_fees, greedy_out, dispatch, calls>>

Next == CallGreedy \/ CallIlp

Spec == Init /\ [][Next]_vars

SpecAny == InitAny /\ [][Next]_vars

(* Tables on which a call fails as often as it returns: items listing no   *)
(* store, one store or both, with a price nobody could determine or a      *)
(* record without its price among the observations.                        *)
CellsFailing ==
    {Obs(Num(48), TRUE), Obs(None, TRUE), Obs(None, FALSE),
     [available |-> TRUE]}

RowsFailing == RowsOver({<<>>, <<"A">>, <<"A", "B">>}, CellsFailing)

InitFailing == InitWith(RowsFailing, {None, Num([A |-> 20])})

SpecFailing == InitFailing /\ [][Next]_vars

(* Tables in which a store reports a price below zero for an item it has;  *)
(* nothing between the scrapers and the optimizer checks the sign.         *)
CellsNegative == {Obs(Num(-5), TRUE), Obs(Num(48), TRUE), Obs(None, FALSE)}

RowsNegative == RowsOver({<<"A", "B">>}, CellsNegative)

InitNegative == InitWith(RowsNegative, FeesSome)

SpecNegative == InitNegative /\ [][Next]_vars

(* Tables whose items list the two stores in either order, so that the     *)
(* store met first is not always the same one.                             *)
RowsEitherOrder ==
    RowsOver({<<"A", "B">>, <<"B", "A">>},
             {Obs(Num(48), TRUE), Obs(Num(50), TRUE), Obs(None, FALSE)})

InitEitherOrder == InitWith(RowsEitherOrder, {None})

SpecEitherOrder == InitEitherOrder /\ [][Next]_vars

(* Fee tables that are absent, empty, or list one of the two stores. *)
FeesPartial == {None, Num(<<>>), Num([A |-> 20]), Num([B |-> 20])}

RowsFees ==
    RowsOver({<<"A", "B">>},
             {Obs(Num(48), TRUE), Obs(Num(50), TRUE), Obs(None, FALSE)})

InitFees == InitWith(RowsFees, FeesPartial)

SpecFees == InitFees /\ [][Next]_vars

(***************************************************************************)
(* The entry points that dispatch on the method selector.                  *)
(***************************************************************************)
STR_ILP == <<"I", "L", "P">>

STR_min_price == <<"m", "i", "n", "-", "p", "r", "i", "c", "e">>

(* selectors a caller passes; "min-price" is agent_orchestrator's default *)
Methods == {STR_greedy, STR_ilp, STR_ILP, STR_min_price}

(* Runs `strategy` on the tables of the state for entry point `entry`; an  *)
(* exception of the strategy leaves the entry point as it is.  The JSON    *)
(* text OptimizerTool._run returns (line 151) lists the same entries in    *)
(* the same order, a pair as a two-element array.                          *)
Dispatch(entry, method, strategy) ==
    /\ dispatch' = [entry |-> entry, method |-> method, ran |-> strategy]
    /\ IF strategy = "ilp_optimize"
       THEN /\ \E run \in ilp_runs(price_table, or_empty(delivery_fees)) :
                  ilp_out' = run.out /\ ilp_point' = run.point
            /\ UNCHANGED greedy_out
       ELSE /\ greedy_out' =
                  greedy_optimize(price_table, or_empty(delivery_fees))
            /\ UNCHANGED <<ilp_out, ilp_point>>
    /\ UNCHANGED <<price_table, delivery_fees, calls>>

(* lc_tools.OptimizerTool._run *)
OptimizerTool_run ==
    \E method \in Methods :
        /\ dispatch = NoDispatch
        /\ Dispatch("OptimizerTool._run", method, tool_strategy(method))

(* agent_core.optimize_cart *)
optimize_cart ==
    \E method \in Methods :
        /\ dispatch = NoDispatch
        /\ Dispatch("optimize_cart", method, cart_strategy(method))

NextDispatch == OptimizerTool_run \/ optimize_cart

InitDispatch == InitWith(RowsWellFormed, {None, Num([A |-> 20, B |-> 20])})

SpecDispatch == InitDispatch /\ [][NextDispatch]_vars

(***************************************************************************)
(* The callers that turn the optimizer's answer into a cart for the UI:    *)
(* GroceryCartAIAgent.find_optimal_cart and simple_orchestrate.  Both hand *)
(* price_results to OptimizerTool._run with "delivery_fees": {} as JSON    *)
(* text and parse the JSON text it returns: dicts keep their entries and   *)
(* their order, None travels as null, a pair comes back as a two-element   *)
(* list, which `store, price = assignment` unpacks like the pair.          *)
(***************************************************************************)

(* `items`, the requested items: the keys of price_results, in order *)
Items(pt) == [k \in 1..Len(pt) |-> pt[k].key]

(* OptimizerTool._run(opt_query): the outcomes of the strategy it selects *)
OptimizerTool_outcomes(method, pt) ==
    IF tool_strategy(method) = "ilp_optimize"
    THEN ilp_optimize(pt, Num(<<>>))
    ELSE {greedy_optimize(pt, Num(<<>>))}

(* `{item: None for item in items}` *)
AllNone(items) == [k \in 1..Len(items) |-> [key |-> items[k], val |-> None]]

IsNoneEntry(e) == e.val = None

IsPairEntry(e) == e.val # None

(* assigned_cart after the first k entries of `optimized`: a dict from the *)
(* store to the list of the items bought there, a store being inserted     *)
(* when its first item arrives                                             *)
RECURSIVE assigned_cart_of(_, _)
assigned_cart_of(optimized, k) ==
    IF k = 0 THEN <<>>
    ELSE LET cart == assigned_cart_of(optimized, k - 1)
             e    == optimized[k]
         IN  IF e.val = None THEN cart
             ELSE LET bought == [item |-> e.key, price |-> e.val[2]]
                  IN  IF e.val[1] \in Keys(cart)
                      THEN [cart EXCEPT ![Get(cart, e.val[1])].val =
                                           Append(@, bought)]
                      ELSE Append(cart, [key |-> e.val[1],
                                         val |-> <<bought>>])

(* The loop that turns `optimized` into the cart: items without a pair are *)
(* listed as unavailable, the others add their price to the total; adding  *)
(* None to the total raises TypeError.                                     *)
transform(optimized, summary) ==
    IF \E k \in Assigned(optimized) : ~IsNum(optimized[k].val[2])
    THEN Raised("TypeError")
    ELSE Returned(
            [unavailable |->
                [k \in 1..Len(SelectSeq(optimized, IsNoneEntry)) |->
                    SelectSeq(optimized, IsNoneEntry)[k].key],
             item_details |-> SelectSeq(optimized, IsPairEntry),
             assigned_cart |-> assigned_cart_of(optimized, Len(optimized)),
             total |-> SumOver([k \in Assigned(optimized) |->
                                   Val(optimized[k].val[2])],
                               Assigned(optimized)),
             summary |-> summary])

(* the answer of simple_orchestrate's `except Exception` *)
orchestration_failed(items) ==
    Returned([unavailable |-> items, item_details |-> <<>>,
              assigned_cart |-> <<>>, total |-> 0,
              summary |-> "Orchestration failed"])

(* the answer of simple_orchestrate when no item has a valid price *)
no_prices_found(items) ==
    Returned([unavailable |-> items, item_details |-> <<>>,
              assigned_cart |-> <<>>, total |-> 0,
              summary |-> "No prices found"])

has_any_prices(pt) ==
    \E k \in 1..Len(pt) : \E j \in 1..Len(pt[k].val) :
        LET store_info == pt[k].val[j].val
        IN  /\ HasKey(store_info, "available") /\ store_info.available
            /\ HasKey(store_info, "price") /\ store_info.price # None

(* find_optimal_cart from step 2 on: a failure of the optimizer is caught  *)
(* and replaced by None for every item; the summary is written by the LLM  *)
(* from the cart alone.                                                    *)
find_optimal_cart ==
    \E method \in Methods :
        /\ dispatch = NoDispatch
        /\ \E out \in OptimizerTool_outcomes(method, price_table) :
              dispatch' =
                 [entry |-> "find_optimal_cart", method |-> method,
                  ran |-> tool_strategy(method), optimizer |-> out,
                  answer |->
                     transform(IF out.kind = "raised"
                               THEN AllNone(Items(price_table))
                               ELSE out.result,
                               "ai_summary")]
        /\ UNCHANGED <<price_table, delivery_fees, greedy_out, ilp_out,
                       ilp_point, calls>>

(* simple_orchestrate from step 2 on: the optimizer runs when some item    *)
(* has a valid price; every exception, the optimizer's as well as the      *)
(* loop's, ends in the answer of `except Exception`.                       *)
simple_orchestrate ==
    \E method \in Methods :
        /\ dispatch = NoDispatch
        /\ IF ~has_any_prices(price_table)
           THEN dispatch' =
                   [entry |-> "simple_orchestrate", method |-> method,
                    ran |-> "none", optimizer |-> NotCalled,
                    answer |-> no_prices_found(Items(price_table))]
           ELSE \E out \in OptimizerTool_outcomes(method, price_table) :
                   dispatch' =
                      [entry |-> "simple_orchestrate", method |-> method,
                       ran |-> tool_strategy(method), optimizer |-> out,
                       answer |->
                          IF out.kind = "raised"
                          THEN orchestration_failed(Items(price_table))
                          ELSE IF transform(out.result, "Found items").kind
                                     = "raised"
                          THEN orchestration_failed(Items(price_table))
                          ELSE transform(out.result, "Found items")]
        /\ UNCHANGED <<price_table, delivery_fees, greedy_out, ilp_out,
                       ilp_point, calls>>

NextCallers == find_optimal_cart \/ simple_orchestrate

(* price_results as the price checker fills them: every item lists every   *)
(* vendor; a cached row can be available without a price.                  *)
CellsCallers == {Obs(Num(48), TRUE), Obs(None, TRUE), Obs(None, FALSE)}

RowsCallers == RowsOver({<<"A", "B">>}, CellsCallers)

InitCallers == InitWith(RowsCallers, {Num(<<>>)})

SpecCallers == InitCallers /\ [][NextCallers]_vars

(***************************************************************************)
(* Two calls of the optimizer in flight at once, each entered with its own *)
(* tables, their statements interleaved.  A call's frame holds its         *)
(* arguments (pt, fees), the locals `result` and `prob` (point), the       *)
(* position k of the loop it is in, and the line it is at:                 *)
(*   greedy_optimize  "L11" the loop over the items, one item a step       *)
(*   ilp_optimize     "L23" lines 23-54, "L56" solve, "L57" the loop that  *)
(*                    reads the values, one item a step                    *)
(* `started` and `overlapped` record that the call took a step, and that   *)
(* it took one while another call was between its first step and its end.  *)
(***************************************************************************)
CallIds == {"c1", "c2"}

Entered(fn, pt, fees) ==
    [fn |-> fn, pt |-> pt, fees |-> fees,
     pc |-> IF fn = "greedy_optimize" THEN "L11" ELSE "L23",
     k |-> 1, result |-> <<>>, point |-> NotSolved, out |-> NotCalled,
     started |-> FALSE, overlapped |-> FALSE]

(* `result` as a name of the module: one dict for every call *)
result_shared(c) == "c1"

(* `result = {}` (lines 10 and 57) is a local name: the frame that holds   *)
(* the dict the call c writes into is its own                              *)
result_of(c) == c

(* result[key] = val on a dict in insertion order *)
SetItem(d, key, val) ==
    IF key \in Keys(d)
    THEN [d EXCEPT ![Get(d, key)].val = val]
    ELSE Append(d, [key |-> key, val |-> val])

InFlight(c) == calls[c].started /\ calls[c].pc # "done"

(* the frame of c after one of its steps *)
Stepped(c, frame) ==
    [frame EXCEPT !.started = TRUE,
                  !.overlapped = @ \/ \E d \in CallIds \ {c} : InFlight(d)]

UnchangedDirect ==
    UNCHANGED <<price_table, delivery_fees, greedy_out, ilp_out, dispatch,
                ilp_point>>

(* lines 11-19, one iteration of the loop of line 11 or the return *)
greedy_loop(c) ==
    /\ calls[c].fn = "greedy_optimize" /\ calls[c].pc = "L11"
    /\ LET me     == calls[c]
           result == calls[result_of(c)].result
       IN  IF me.k > Len(me.pt)
           THEN calls' = [calls EXCEPT
                   ![c] = Stepped(c, [me EXCEPT !.pc = "done",
                                                !.out = Returned(result)])]
           ELSE LET row == greedy_scan(me.pt[me.k].val, 1, None)
                IN  IF row.kind = "raised"
                    THEN calls' = [calls EXCEPT
                            ![c] = Stepped(c, [me EXCEPT !.pc = "done",
                                                         !.out = row])]
                    ELSE calls' = [calls EXCEPT
                            ![c] = Stepped(c, [me EXCEPT !.k = @ + 1]),
                            ![result_of(c)].result =
                               SetItem(result, me.pt[me.k].key, row.result)]
    /\ UnchangedDirect

(* lines 23-54: the problem is built, or building it raises *)
ilp_build(c) ==
    /\ calls[c].fn = "ilp_optimize" /\ calls[c].pc = "L23"
    /\ LET me == calls[c]
       IN  IF objective_errors(me.pt) # {}
           THEN \E e \in objective_errors(me.pt) :
                   calls' = [calls EXCEPT
                      ![c] = Stepped(c, [me EXCEPT !.pc = "done",
                                                   !.out = Raised(e)])]
           ELSE calls' = [calls EXCEPT
                   ![c] = Stepped(c, [me EXCEPT !.pc = "L56"])]
    /\ UnchangedDirect

(* line 56 *)
ilp_solve(c) ==
    /\ calls[c].fn = "ilp_optimize" /\ calls[c].pc = "L56"
    /\ \E point \in solve(calls[c].pt, calls[c].fees) :
          calls' = [calls EXCEPT
             ![c] = Stepped(c, [calls[c] EXCEPT !.pc = "L57",
                                                !.point = point])]
    /\ UnchangedDirect

(* lines 57-62, one iteration of the loop of line 58 or the return *)
ilp_extract(c) ==
    /\ calls[c].fn = "ilp_optimize" /\ calls[c].pc = "L57"
    /\ LET me     == calls[c]
           result == calls[result_of(c)].result
       IN  IF me.k > Len(me.pt)
           THEN calls' = [calls EXCEPT
                   ![c] = Stepped(c, [me EXCEPT !.pc = "done",
                                                !.out = Returned(result)])]
           ELSE IF me.point.status # "Optimal"
           THEN calls' = [calls EXCEPT
                   ![c] = Stepped(c, [me EXCEPT !.k = @ + 1])]
           ELSE LET s    == me.point.x[me.k]
                    info == Lookup(me.pt[me.k].val, s)
                IN  IF ~HasKey(info, "price")
                    THEN calls' = [calls EXCEPT
                            ![c] = Stepped(c, [me EXCEPT !.pc = "done",
                                                 !.out = Raised("KeyError")])]
                    ELSE calls' = [calls EXCEPT
                            ![c] = Stepped(c, [me EXCEPT !.k = @ + 1]),
                            ![result_of(c)].result =
                               SetItem(result, me.pt[me.k].key,
                                       Pair(s, info.price))]
    /\ UnchangedDirect

NextConcurrent ==
    \E c \in CallIds :
        greedy_loop(c) \/ ilp_build(c) \/ ilp_solve(c) \/ ilp_extract(c)

(* the tables the calls are entered with: stores that differ in price, tie *)
(* or have an observation on which both functions raise                    *)
RowsConcurrent ==
    {<< [key |-> "A", val |-> Obs(Num(48), TRUE)],
        [key |-> "B", val |-> info] >> :
        info \in {Obs(Num(50), TRUE), Obs(Num(48), TRUE), Obs(None, TRUE)}}

InitConcurrent ==
    /\ price_table = <<>> /\ delivery_fees = None
    /\ greedy_out = NotCalled /\ ilp_out = NotCalled
    /\ dispatch = NoDispatch /\ ilp_point = NotSolved
    /\ \E fn \in [CallIds -> {"greedy_optimize", "ilp_optimize"}] :
       \E n \in [CallIds -> 0..MaxItems] :
       \E r \in [CallIds -> [1..MaxItems -> RowsConcurrent]] :
          calls = [c \in CallIds |->
                     Entered(fn[c],
                             [k \in 1..n[c] |->
                                 [key |-> ItemNames[k], val |-> r[c][k]]],
                             Num([A |-> 20]))]

SpecConcurrent == InitConcurrent /\ [][NextConcurrent]_vars

(***************************************************************************)
(* Vocabulary of the properties.                                           *)
(***************************************************************************)
Called(out) == out.kind # "not_called"

Succeeded(out) == out.kind = "returned"

(* a usable observation: available == true and price != None *)
Usable(info) ==
    /\ HasKey(info, "available") /\ HasKey(info, "price")
    /\ info.available /\ info.price # None

UsableStores(pt, k) ==
    {s \in Keys(pt[k].val) : Usable(Lookup(pt[k].val, s))}

(* the table with the observation of item k at store s replaced by info *)
Replace(pt, k, s, info) ==
    [pt EXCEPT ![k].val[Get(pt[k].val, s)].val = info]

(* the table without its k-th item *)
Remove(seq, k) == SubSeq(seq, 1, k - 1) \o SubSeq(seq, k + 1, Len(seq))

(* the price an assignment charges for its k-th entry, when it is a number *)
Charged(a, k) == a[k].val # None /\ IsNum(a[k].val[2])

(* Scenario D of the specification *)
ScenarioD ==
    << [key |-> "milk",
        val |-> << [key |-> "A", val |-> Obs(Num(50), TRUE)],
                   [key |-> "B", val |-> Obs(Num(48), TRUE)] >>],
       [key |-> "bread",
        val |-> << [key |-> "A", val |-> Obs(Num(30), TRUE)],
                   [key |-> "B", val |-> Obs(Num(60), TRUE)] >>] >>

ScenarioDFees == Num([A |-> 20, B |-> 20])

(***************************************************************************)
(* C7. Scenario D: on milk -> {A: 50, B: 48}, bread -> {A: 30, B: 60} with *)
(* fees {A: 20, B: 20}, greedy_optimize assigns milk to B and bread to A,  *)
(* 118 with both fees; ilp_optimize assigns both items to A, 100 in all.   *)
(***************************************************************************)
C7_ScenarioD ==
    (price_table = ScenarioD /\ delivery_fees = ScenarioDFees) =>
        /\ Called(greedy_out) =>
              /\ greedy_out =
                    Returned(<< [key |-> "milk", val |-> Pair("B", Num(48))],
                                [key |-> "bread", val |-> Pair("A", Num(30))] >>)
              /\ total(greedy_out.result, delivery_fees) = Returned(118)
        /\ Called(ilp_out) =>
              /\ ilp_out =
                    Returned(<< [key |-> "milk", val |-> Pair("A", Num(50))],
                                [key |-> "bread", val |-> Pair("A", Num(30))] >>)
              /\ total(ilp_out.result, delivery_fees) = Returned(100)

C7_Witness ==
    /\ price_table = ScenarioD /\ delivery_fees = ScenarioDFees
    /\ Succeeded(greedy_out) /\ Succeeded(ilp_out)

NonNegativeFees(fees) ==
    fees # None => \A s \in DOMAIN Val(fees) : Val(fees)[s] >= 0

(* the assignments of every item to one of its usable stores *)
UsableAssignments(pt) ==
    {alt \in [1..Len(pt) -> StoreNames] :
        \A k \in 1..Len(pt) : alt[k] \in UsableStores(pt, k)}

(* the Assignment that buys the k-th item at alt[k] *)
AssignmentOf(pt, alt) ==
    [k \in 1..Len(pt) |->
        [key |-> pt[k].key,
         val |-> Pair(alt[k], Lookup(pt[k].val, alt[k]).price)]]

(***************************************************************************)
(* C1. When every item has a usable observation and no fee is negative,    *)
(* the assignment ilp_optimize returns costs (prices plus the fee of each  *)
(* store used, once) no more than any assignment of every item to one of   *)
(* its usable stores.                                                      *)
(***************************************************************************)
C1_IlpCostIsMinimal ==
    (/\ Succeeded(ilp_out)
     /\ NonNegativeFees(delivery_fees)
     /\ \A k \in 1..Len(price_table) : UsableStores(price_table, k) # {}
     /\ total(ilp_out.result, delivery_fees).kind = "returned")
    => \A alt \in UsableAssignments(price_table) :
          total(ilp_out.result, delivery_fees).result
             <= total(AssignmentOf(price_table, alt), delivery_fees).result

(***************************************************************************)
(* C2. The total of ilp_optimize's assignment (prices plus the fee of      *)
(* every store used) is at most the total of greedy_optimize's assignment  *)
(* for the same tables.                                                    *)
(***************************************************************************)
C2_IlpNoWorseThanGreedy ==
    (/\ Succeeded(greedy_out) /\ Succeeded(ilp_out)
     /\ total(greedy_out.result, delivery_fees).kind = "returned"
     /\ total(ilp_out.result, delivery_fees).kind = "returned")
    => total(ilp_out.result, delivery_fees).result
          <= total(greedy_out.result, delivery_fees).result

(* every pair of the Assignment a is a usable observation of pt *)
FromUsableObservation(pt, a) ==
    \A k \in 1..Len(a) :
        a[k].val # None =>
            \E i \in 1..Len(pt) :
                /\ pt[i].key = a[k].key
                /\ a[k].val[1] \in UsableStores(pt, i)
                /\ Lookup(pt[i].val, a[k].val[1]).price = a[k].val[2]

(***************************************************************************)
(* C3. Every entry of a returned Assignment that is not None is a pair     *)
(* (store, price) for which the PriceTable holds, for that item and store, *)
(* a usable observation with exactly that price.                           *)
(***************************************************************************)
C3_AssignedPairsAreUsable ==
    /\ Succeeded(greedy_out) =>
          FromUsableObservation(price_table, greedy_out.result)
    /\ Succeeded(ilp_out) =>
          FromUsableObservation(price_table, ilp_out.result)

(* `out` gives None to the k-th item and, to the others, what one of the   *)
(* outcomes `without` (the call on the table without that item) gives.     *)
PropagatesUnavailable(out, without, k) ==
    /\ Succeeded(out)
    /\ Len(out.result) >= k
    /\ out.result[k].val = None
    /\ \E w \in without : Succeeded(w) /\ w.result = Remove(out.result, k)

(***************************************************************************)
(* C4. An item without any usable observation gets None from both          *)
(* assigners, and every other item gets what it gets when that item is     *)
(* removed from the PriceTable.                                            *)
(***************************************************************************)
C4_UnavailablePropagation ==
    \A k \in 1..Len(price_table) :
        UsableStores(price_table, k) = {} =>
            /\ (/\ Called(greedy_out)
                /\ Succeeded(greedy_optimize(Remove(price_table, k),
                                             delivery_fees)))
               => PropagatesUnavailable(greedy_out,
                     {greedy_optimize(Remove(price_table, k), delivery_fees)},
                     k)
            /\ (/\ Called(ilp_out)
                /\ \E w \in ilp_optimize(Remove(price_table, k),
                                         delivery_fees) : Succeeded(w))
               => PropagatesUnavailable(ilp_out,
                     ilp_optimize(Remove(price_table, k), delivery_fees), k)

(* the prices of the usable observations of the k-th item *)
UsablePrices(pt, k) ==
    {Val(Lookup(pt[k].val, s).price) : s \in UsableStores(pt, k)}

(***************************************************************************)
(* C5. For every item with a usable observation, greedy_optimize returns a *)
(* pair whose price is the minimum over the item's usable observations.    *)
(***************************************************************************)
C5_GreedyMinimumPerItem ==
    Called(greedy_out) =>
        \A k \in 1..Len(price_table) :
            UsableStores(price_table, k) # {} =>
                /\ Succeeded(greedy_out)
                /\ Charged(greedy_out.result, k)
                /\ Val(greedy_out.result[k].val[2])
                      = MinOf(UsablePrices(price_table, k))

(* the observations of a table, as (position of the item, store) *)
Cells(pt) == {c \in (1..Len(pt)) \X StoreNames : c[2] \in Keys(pt[c[1]].val)}

CellInfo(pt, c) == Lookup(pt[c[1]].val, c[2])

(* the Assignment a buys the item of c at the store of c *)
Selects(a, pt, c) ==
    \E k \in 1..Len(a) :
        a[k].key = pt[c[1]].key /\ a[k].val # None /\ a[k].val[1] = c[2]

(* the outcome `out`, one of `same` (the outcomes on the table with the    *)
(* observation c made unusable), succeeded without selecting c             *)
AsIfUnusable(out, same, pt, c) ==
    /\ out \in same
    /\ Succeeded(out)
    /\ ~Selects(out.result, pt, c)

(***************************************************************************)
(* C6. An observation {price: None, available: true} is unusable: turning  *)
(* it into {price: None, available: false} changes the outcome of neither  *)
(* assigner, it is never selected, and it never makes the call fail.       *)
(***************************************************************************)
C6_NonePriceIsUnusable ==
    \A c \in Cells(price_table) :
        CellInfo(price_table, c) = Obs(None, TRUE) =>
            LET unusable == Replace(price_table, c[1], c[2], Obs(None, FALSE))
            IN  /\ (/\ Called(greedy_out)
                    /\ Succeeded(greedy_optimize(unusable, delivery_fees)))
                   => AsIfUnusable(greedy_out,
                         {greedy_optimize(unusable, delivery_fees)},
                         price_table, c)
                /\ (/\ Called(ilp_out)
                    /\ \A w \in ilp_optimize(unusable, delivery_fees) :
                          Succeeded(w) /\ ~Selects(w.result, price_table, c))
                   => AsIfUnusable(ilp_out,
                         ilp_optimize(unusable, delivery_fees),
                         price_table, c)

(* the call returned, with the items of pt as keys, each once, in order *)
OneEntryPerItem(out, pt) ==
    /\ Succeeded(out)
    /\ [k \in 1..Len(out.result) |-> out.result[k].key] = Items(pt)

(***************************************************************************)
(* C8. Both assigners return an Assignment with exactly one entry per item *)
(* of the PriceTable, also when items have an empty store mapping.         *)
(***************************************************************************)
C8_OneEntryPerItem ==
    /\ Called(greedy_out) => OneEntryPerItem(greedy_out, price_table)
    /\ Called(ilp_out) => OneEntryPerItem(ilp_out, price_table)

(* the selectors that name a mode: "greedy" and "ilp", in any case *)
Recognized(method) == lower(method) \in {STR_greedy, STR_ilp}

(***************************************************************************)
(* C9. A selector that names neither the greedy nor the ILP mode is a hard *)
(* error in OptimizerTool._run and optimize_cart: no strategy is run for   *)
(* it.                                                                     *)
(***************************************************************************)
C9_UnknownMethodIsHardError ==
    (dispatch # NoDispatch /\ ~Recognized(dispatch.method))
    => dispatch.ran \notin {"greedy_optimize", "ilp_optimize"}

(***************************************************************************)
(* C10. An observation without its price or its available field is         *)
(* unusable and raises nothing: the outcome is the one of the table in     *)
(* which the record is {price: None, available: false}.                    *)
(***************************************************************************)
C10_MissingFieldIsUnusable ==
    \A c \in Cells(price_table) :
        (~HasKey(CellInfo(price_table, c), "price")
         \/ ~HasKey(CellInfo(price_table, c), "available")) =>
            LET unusable == Replace(price_table, c[1], c[2], Obs(None, FALSE))
            IN  /\ (/\ Called(greedy_out)
                    /\ Succeeded(greedy_optimize(unusable, delivery_fees)))
                   => greedy_out = greedy_optimize(unusable, delivery_fees)
                /\ (/\ Called(ilp_out)
                    /\ \A w \in ilp_optimize(unusable, delivery_fees) :
                          Succeeded(w))
                   => ilp_out \in ilp_optimize(unusable, delivery_fees)

(* the stores the solved point buys an item at *)
point_stores(point) == {point.x[k] : k \in DOMAIN point.x}

(* the delivery term of line 45 at the solved point *)
fees_in_objective(pt, fees, point) ==
    SumOver([s \in AllStores(pt) |-> Fee(fees, s) * point.y[s]],
            AllStores(pt))

(***************************************************************************)
(* C11. In the point ilp_optimize extracts its result from, y[s] = 1 for   *)
(* every store s some item is assigned to, no store with a positive fee is *)
(* activated without an item, and so the delivery term of the minimized    *)
(* total is the fee of every store used, once each, however many items use *)
(* it.                                                                     *)
(***************************************************************************)
C11_FeeCountedOncePerUsedStore ==
    ilp_point.status = "Optimal" =>
        /\ \A s \in AllStores(price_table) :
              /\ s \in point_stores(ilp_point) => ilp_point.y[s] = 1
              /\ (s \notin point_stores(ilp_point)
                  /\ Fee(delivery_fees, s) > 0) => ilp_point.y[s] = 0
        /\ fees_in_objective(price_table, delivery_fees, ilp_point)
              = SumOver([s \in point_stores(ilp_point) |->
                            Fee(delivery_fees, s)],
                        point_stores(ilp_point))

(* both items of Scenario D at store A, store B charged but not activated *)
C11_Witness ==
    /\ price_table = ScenarioD /\ delivery_fees = ScenarioDFees
    /\ ilp_point.status = "Optimal"
    /\ ilp_point.x = <<"A", "A">>
    /\ ilp_point.y["A"] = 1 /\ ilp_point.y["B"] = 0

(***************************************************************************)
(* C13. Neither greedy_optimize nor ilp_optimize mutates its inputs: over  *)
(* every call, whether it returns or raises, the PriceTable (items, stores *)
(* and every field of every observation) and the DeliveryFeeTable are      *)
(* after the call what they were before it.                                *)
(***************************************************************************)
C13_InputsNotMutated ==
    [][price_table' = price_table /\ delivery_fees' = delivery_fees]_vars

(* one call returned and the other raised, on the same tables *)
C13_Witness ==
    /\ Succeeded(greedy_out)
    /\ ilp_out.kind = "raised"
    /\ Len(price_table) > 0

(* the Assignment a has None for its k-th item *)
NoneAt(a, k) == Len(a) >= k /\ a[k].val = None

(***************************************************************************)
(* C14. An item whose store mapping is empty gets None from both           *)
(* assigners; a PriceTable whose items all have an empty store mapping     *)
(* gets an Assignment with one None entry per item, not an error and not   *)
(* an empty Assignment.                                                    *)
(***************************************************************************)
C14_EmptyMappingYieldsNone ==
    \A k \in 1..Len(price_table) :
        price_table[k].val = <<>> =>
            /\ Succeeded(greedy_out) => NoneAt(greedy_out.result, k)
            /\ Succeeded(ilp_out) => NoneAt(ilp_out.result, k)
            /\ (\A j \in 1..Len(price_table) : price_table[j].val = <<>>) =>
                  /\ Called(greedy_out) => Succeeded(greedy_out)
                  /\ Called(ilp_out) => Succeeded(ilp_out)

(***************************************************************************)
(* C15. Scenario E: an empty PriceTable yields the empty Assignment from   *)
(* greedy_optimize and from ilp_optimize, whatever the DeliveryFeeTable,   *)
(* and neither call raises.                                                *)
(***************************************************************************)
C15_EmptyTableYieldsEmptyAssignment ==
    price_table = <<>> =>
        /\ Called(greedy_out) => greedy_out = Returned(<<>>)
        /\ Called(ilp_out) => ilp_out = Returned(<<>>)

(* both assigners called on the empty table with both stores charged *)
C15_Witness ==
    /\ price_table = <<>>
    /\ delivery_fees = ScenarioDFees
    /\ Called(greedy_out) /\ Called(ilp_out)

(* no pair of a returned Assignment carries a price below zero *)
NoNegativePrice(out) ==
    Succeeded(out) =>
        \A k \in 1..Len(out.result) :
            Charged(out.result, k) => Val(out.result[k].val[2]) >= 0

(***************************************************************************)
(* C16. A negative price never distorts the minimization: an available     *)
(* observation with a price below zero is rejected with an error or        *)
(* clamped to 0 before it is compared, so neither assigner returns an      *)
(* Assignment that contains a negative price.                              *)
(***************************************************************************)
C16_NegativePriceNeverReturned ==
    /\ NoNegativePrice(greedy_out)
    /\ NoNegativePrice(ilp_out)

(***************************************************************************)
(* C17. When the solver finds no feasible point, ilp_optimize reports an   *)
(* error: it does not return an Assignment, partial or empty, so that the  *)
(* outcome differs from the valid one in which every item is unavailable.  *)
(***************************************************************************)
C17_InfeasibleIsAnError ==
    ilp_point = Infeasible => ilp_out.kind = "raised"

(* the answer lists every requested item as unavailable and says nothing   *)
(* of a failure                                                            *)
SilentlyAllUnavailable(answer, items) ==
    /\ answer.kind = "returned"
    /\ answer.result.unavailable = items
    /\ answer.result.summary \notin {"Orchestration failed"}

(***************************************************************************)
(* C18. A hard error of the optimizer is never converted into None         *)
(* assignments: when the optimizer's call fails, no caller answers with    *)
(* every requested item None / listed as unavailable and no indication of  *)
(* the error.                                                              *)
(***************************************************************************)
C18_FailureNotPresentedAsUnavailable ==
    (/\ dispatch.entry \in {"find_optimal_cart", "simple_orchestrate"}
     /\ dispatch.optimizer.kind = "raised")
    => ~SilentlyAllUnavailable(dispatch.answer, Items(price_table))

(* the outcomes of the call, run on its tables by itself *)
Alone(frame) ==
    IF frame.fn = "greedy_optimize"
    THEN {greedy_optimize(frame.pt, frame.fees)}
    ELSE ilp_optimize(frame.pt, frame.fees)

(***************************************************************************)
(* C19. Concurrent invocations do not interact: when two calls of          *)
(* greedy_optimize and/or ilp_optimize, each with its own tables, are      *)
(* interleaved in any order, each ends with an outcome it has when run     *)
(* alone on its tables.                                                    *)
(***************************************************************************)
C19_ConcurrentCallsDoNotInteract ==
    \A c \in DOMAIN calls :
        calls[c].pc = "done" => calls[c].out \in Alone(calls[c])

(* a greedy and an ILP call on different tables, both returned after       *)
(* steps taken while the other was in flight                               *)
C19_Witness ==
    /\ DOMAIN calls = CallIds
    /\ calls["c1"].fn = "greedy_optimize" /\ calls["c2"].fn = "ilp_optimize"
    /\ calls["c1"].pt # calls["c2"].pt
    /\ calls["c1"].overlapped /\ calls["c2"].overlapped
    /\ Succeeded(calls["c1"].out) /\ Succeeded(calls["c2"].out)
    /\ Len(calls["c1"].out.result) = MaxItems
    /\ Len(calls["c2"].out.result) > 0

(***************************************************************************)
(* C20. ilp_optimize never prefers an unusable pairing: an item that has a *)
(* usable observation is assigned to one of its usable stores, whatever    *)
(* the prices and the fees, those beyond the sentinel cost included.       *)
(***************************************************************************)
C20_IlpNeverPrefersUnusable ==
    Succeeded(ilp_out) =>
        \A k \in 1..Len(price_table) :
            UsableStores(price_table, k) # {} =>
                /\ Len(ilp_out.result) >= k
                /\ ilp_out.result[k].val # None
                /\ ilp_out.result[k].val[1] \in UsableStores(price_table, k)

(* every item lists a store, and some item does not list a store that     *)
(* another item lists                                                      *)
Ragged(pt) ==
    /\ \A k \in 1..Len(pt) : pt[k].val # <<>>
    /\ \E k \in 1..Len(pt) : Keys(pt[k].val) # AllStores(pt)

(* every observation has both fields, and a price when it is available *)
ObservationsComplete(pt) ==
    \A c \in Cells(pt) :
        /\ HasKey(CellInfo(pt, c), "available")
        /\ HasKey(CellInfo(pt, c), "price")
        /\ CellInfo(pt, c).available => IsNum(CellInfo(pt, c).price)

(***************************************************************************)
(* C21. ilp_optimize has a decision variable for every item and every      *)
(* store of the PriceTable: when a store is listed under one item and not  *)
(* under another, the call still succeeds, the missing pair being costed   *)
(* like an unusable observation, and no item is reported as bought at a    *)
(* store where it has no observation.                                      *)
(***************************************************************************)
C21_MissingPairIsCostedNotFatal ==
    (/\ Called(ilp_out)
     /\ Ragged(price_table)
     /\ ObservationsComplete(price_table))
    => /\ Succeeded(ilp_out)
       /\ \A k \in 1..Len(ilp_out.result) :
             ilp_out.result[k].val # None =>
                \E i \in 1..Len(price_table) :
                    /\ price_table[i].key = ilp_out.result[k].key
                    /\ ilp_out.result[k].val[1] \in Keys(price_table[i].val)

(* the fee table with every store it omits mapped to 0 *)
ZeroFilled(pt, fees) ==
    LET listed == IF fees = None THEN {} ELSE DOMAIN Val(fees)
    IN  Num([s \in AllStores(pt) \cup listed |->
                IF s \in listed THEN Val(fees)[s] ELSE 0])

(***************************************************************************)
(* C22. In ilp_optimize a store absent from the DeliveryFeeTable has fee   *)
(* 0, and an absent or empty table gives every store fee 0: the outcomes   *)
(* for a fee table that omits stores are the outcomes for the same table   *)
(* with those stores mapped to 0.                                          *)
(***************************************************************************)
C22_OmittedFeeIsZero ==
    /\ ilp_optimize(price_table, delivery_fees)
          = ilp_optimize(price_table, ZeroFilled(price_table, delivery_fees))
    /\ Called(ilp_out) =>
          ilp_out \in ilp_optimize(price_table,
                                   ZeroFilled(price_table, delivery_fees))

(* store B is omitted from the fees and wins milk at 50 against 48 + 20 *)
C22_Witness ==
    /\ delivery_fees # None
    /\ DOMAIN Val(delivery_fees) = {"A"}
    /\ Len(price_table) = 1
    /\ Lookup(price_table[1].val, "A") = Obs(Num(48), TRUE)
    /\ ilp_out = Returned(<<[key |-> "milk", val |-> Pair("B", Num(50))]>>)

(* values a caller can pass for max_stores *)
MaxStoresValues == {None, Num(1), Num(2)}

(***************************************************************************)
(* C23. The result of greedy_optimize does not depend on the delivery      *)
(* fees: for the PriceTable of the call, every DeliveryFeeTable and every  *)
(* value of max_stores give the Assignment the call returned.              *)
(***************************************************************************)
C23_GreedyIgnoresFees ==
    Called(greedy_out) =>
        \A fees \in FeesPartial \cup FeesSome :
            /\ greedy_optimize(price_table, fees) = greedy_out
            /\ \A max_stores \in MaxStoresValues :
                  greedy_optimize_max_stores(price_table, fees, max_stores)
                     = greedy_out

(* milk goes to A at 48 although A charges 20 and B offers 50 without fee *)
C23_Witness ==
    /\ delivery_fees # None
    /\ DOMAIN Val(delivery_fees) = {"A"}
    /\ Len(price_table) = 1
    /\ Lookup(price_table[1].val, "B") = Obs(Num(50), TRUE)
    /\ greedy_out = Returned(<<[key |-> "milk", val |-> Pair("A", Num(48))]>>)

(* positions of the usable observations of a row, in iteration order *)
UsableAt(row) == {j \in 1..Len(row) : Usable(row[j].val)}

(* the first position of the row whose usable price is the minimum *)
FirstMinimum(row) ==
    CHOOSE j \in UsableAt(row) :
        /\ \A i \in UsableAt(row) :
              Val(row[j].val.price) <= Val(row[i].val.price)
        /\ \A i \in UsableAt(row) :
              i < j => Val(row[i].val.price) > Val(row[j].val.price)

(***************************************************************************)
(* C24. When several usable observations of an item share the minimum      *)
(* price, greedy_optimize selects the store met first in the iteration     *)
(* order of the item's store mapping: a later store replaces the current   *)
(* best only when its price is strictly lower.                             *)
(***************************************************************************)
C24_GreedyTieGoesToFirstStore ==
    Succeeded(greedy_out) =>
        \A k \in 1..Len(price_table) :
            UsableAt(price_table[k].val) # {} =>
                greedy_out.result[k].val =
                    LET row == price_table[k].val
                    IN  Pair(row[FirstMinimum(row)].key,
                             row[FirstMinimum(row)].val.price)

(* milk lists B before A, both at 48, and goes to B *)
C24_Witness ==
    /\ Len(price_table) >= 1
    /\ price_table[1].val = << [key |-> "B", val |-> Obs(Num(48), TRUE)],
                               [key |-> "A", val |-> Obs(Num(48), TRUE)] >>
    /\ Succeeded(greedy_out)
    /\ greedy_out.result[1].val = Pair("B", Num(48))

ZeroFees(fees) ==
    fees # None => \A s \in DOMAIN Val(fees) : Val(fees)[s] = 0

(* the minimum usable price of the k-th item is reached at a single store *)
SingleMinimum(pt, k) ==
    /\ UsableStores(pt, k) # {}
    /\ Cardinality({s \in UsableStores(pt, k) :
                       Val(Lookup(pt[k].val, s).price)
                          = MinOf(UsablePrices(pt, k))}) = 1

(***************************************************************************)
(* C25. When all delivery fees are zero and the minimum usable price of an *)
(* item is reached at a single store, greedy_optimize and ilp_optimize     *)
(* assign that item the same (store, price) pair; an observation that is   *)
(* not available is ignored by both, even when its price is the lowest.    *)
(***************************************************************************)
C25_AssignersAgreeWithoutFees ==
    (/\ ZeroFees(delivery_fees)
     /\ Succeeded(greedy_out) /\ Succeeded(ilp_out))
    => \A k \in 1..Len(price_table) :
          SingleMinimum(price_table, k) =>
              /\ Len(ilp_out.result) >= k
              /\ ilp_out.result[k] = greedy_out.result[k]

(* iterating the Assignment a visits its items in the order in which        *)
(* iterating pt visits them                                                *)
InInputOrder(a, pt) ==
    /\ \A i \in 1..Len(a) : a[i].key \in Keys(pt)
    /\ \A i, j \in 1..Len(a) :
          i < j => Get(pt, a[i].key) < Get(pt, a[j].key)

(***************************************************************************)
(* C26. Both assigners emit the entries of the Assignment in the insertion *)
(* order of the items of the PriceTable.                                   *)
(***************************************************************************)
C26_ItemOrderPreserved ==
    /\ Succeeded(greedy_out) => InInputOrder(greedy_out.result, price_table)
    /\ Succeeded(ilp_out) => InInputOrder(ilp_out.result, price_table)

(* both assigners returned milk before bread, as the table lists them *)
C26_Witness ==
    /\ Items(price_table) = <<"milk", "bread">>
    /\ Succeeded(greedy_out) /\ Succeeded(ilp_out)
    /\ Items(greedy_out.result) = <<"milk", "bread">>
    /\ Items(ilp_out.result) = <<"milk", "bread">>

(* every observation of the table has its price and its available field *)
FieldsPresent(pt) ==
    \A c \in Cells(pt) :
        HasKey(CellInfo(pt, c), "available") /\ HasKey(CellInfo(pt, c), "price")

(* the entry greedy_optimize gives an item and the tuple                   *)
(* get_min_price_for_item returns for its row say the same                 *)
SameChoice(entry, min_price) ==
    IF entry = None
    THEN min_price.best_store = None /\ min_price.best_price = None
    ELSE /\ min_price.best_store = <<entry[1]>>
         /\ min_price.best_price = entry[2]
         /\ IsNum(entry[2])

(***************************************************************************)
(* C27. greedy_optimize and agent_core.get_min_price_for_item agree on     *)
(* every item row: greedy_optimize returns None for an item exactly when   *)
(* get_min_price_for_item returns (None, None), and otherwise both return  *)
(* the same store and the same numeric price, also for rows that hold an   *)
(* observation with available == true and price == None.                   *)
(***************************************************************************)
C27_GreedyAgreesWithMinPrice ==
    (Called(greedy_out) /\ FieldsPresent(price_table)) =>
        /\ Succeeded(greedy_out)
        /\ \A k \in 1..Len(price_table) :
              SameChoice(greedy_out.result[k].val,
                         get_min_price_for_item(price_table[k].val))

(***************************************************************************)
(* C28. The two method dispatchers select the same strategy for the same   *)
(* selector: whatever entry point was given the selector, the strategy it  *)
(* ran is the one OptimizerTool._run selects for it and the one            *)
(* optimize_cart selects for it.                                           *)
(***************************************************************************)
C28_DispatchersAgree ==
    dispatch # NoDispatch =>
        /\ dispatch.ran = tool_strategy(dispatch.method)
        /\ dispatch.ran = cart_strategy(dispatch.method)

(* the places (store, position) of the cart where `item` is listed *)
PlacesOf(cart, item) ==
    {pl \in (1..Len(cart)) \X (1..MaxItems) :
        /\ pl[2] <= Len(cart[pl[1]].val)
        /\ cart[pl[1]].val[pl[2]].item = item}

(* the sum of the prices listed in the cart *)
CartSum(cart) ==
    LET places == {pl \in (1..Len(cart)) \X (1..MaxItems) :
                      pl[2] <= Len(cart[pl[1]].val)}
    IN  SumOver([pl \in places |-> Val(cart[pl[1]].val[pl[2]].price)],
                places)

InSeq(seq, e) == \E k \in 1..Len(seq) : seq[k] = e

(***************************************************************************)
(* C29. In the result simple_orchestrate builds from the optimizer's       *)
(* Assignment, every item of the Assignment is in exactly one of two       *)
(* places: in the unavailable list, exactly when its value is None, or     *)
(* once in assigned_cart, under its assigned store; and total is the sum   *)
(* of the prices in assigned_cart, with no delivery fee.                   *)
(***************************************************************************)
C29_CartPartitionsTheAssignment ==
    (/\ dispatch.entry = "simple_orchestrate"
     /\ Succeeded(dispatch.optimizer))
    => LET a   == dispatch.optimizer.result
           res == dispatch.answer.result
       IN  /\ dispatch.answer.kind = "returned"
           /\ \A k \in 1..Len(a) :
                 /\ InSeq(res.unavailable, a[k].key) <=> a[k].val = None
                 /\ a[k].val = None =>
                       PlacesOf(res.assigned_cart, a[k].key) = {}
                 /\ a[k].val # None =>
                       /\ Cardinality(PlacesOf(res.assigned_cart, a[k].key))
                             = 1
                       /\ \A pl \in PlacesOf(res.assigned_cart, a[k].key) :
                             res.assigned_cart[pl[1]].key = a[k].val[1]
           /\ res.total = CartSum(res.assigned_cart)

====
